---- MODULE Spec2Model ----
(***************************************************************************)
(* Model of the cultural-center visitor management backend: the            *)
(* reservation lifecycle (modular API under api/ and the legacy            *)
(* server.py, which share one database), check-in codes, events and their  *)
(* centers, user segmentation, interest detection and authentication.      *)
(***************************************************************************)
EXTENDS Integers, Sequences, FiniteSets, TLC

\* ------------------------------------------------------------------ bounds
MaxReservations == 2
MaxCapacity == 2

\* ------------------------------------------------------------ the database
VARIABLES users, events, reservations, checkins, indexes, response, workers, call

dbVars == <<users, events, reservations, checkins, indexes>>
vars == <<users, events, reservations, checkins, indexes, response, workers, call>>

UserIds == {"u1", "u2"}
EventIds == {"e1"}
\* an event id that no stored event has
NoEvent == "e0"
\* the reservation ids a request can name
ReservationIds == 1..MaxReservations
\* a field a stored document does not have
Missing == "<missing>"
\* no service call recorded
NoCall == [fn |-> "none", done |-> TRUE]

\* The unique indexes of the database.  Both start-ups build the one on
\* users.email; only core/database.py asks for one on the reservations
\* field reservation_code.  Each start-up builds its indexes inside one
\* try/except that logs a warning, so a database first filled by server.py
\* (two or more reservations, none with the field) keeps going without it.
LegacyIndexes == {"users.email"}
ModularIndexes == {"users.email", "reservations.reservation_code"}
Deployments == {LegacyIndexes, ModularIndexes}

\* The user documents the reservation workflow runs against: u1 is a
\* visitor, u2 an administrator.
SeedUsers ==
    << [id |-> "u1", email |-> "u1@ccb.do", name |-> "ana", password |-> <<"bcrypt", "Clave123">>,
        is_admin |-> FALSE, deleted |-> "False", last_login |-> "None"],
       [id |-> "u2", email |-> "u2@ccb.do", name |-> "anabel", password |-> <<"bcrypt", "Otra4567">>,
        is_admin |-> TRUE, deleted |-> "False", last_login |-> "None"] >>

Max(a, b) == IF a >= b THEN a ELSE b
Min(a, b) == IF a <= b THEN a ELSE b

\* indexes of the documents of a collection that match a filter, in
\* natural (insertion) order
Matching(coll, F(_)) == {i \in DOMAIN coll : F(coll[i])}
First(S) == CHOOSE i \in S : \A j \in S : i <= j

\* find_one({"id": uid}) on the users collection
UserById(uid) == Matching(users, LAMBDA d : d.id = uid)

IsAdmin(uid) == UserById(uid) # {} /\ users[First(UserById(uid))].is_admin

\* count_documents({"event_id": e, "status": {"$ne": "cancelled"}})
ActiveCount(e) ==
    Cardinality(Matching(reservations,
        LAMBDA r : r.event_id = e /\ r.status # "cancelled"))

\* a place count that is one too generous
AvailableSpotsOffByOne(e) == Max(0, events[e].capacity - ActiveCount(e) + 1)

\* EventService.get_event_by_id: the event with its available_spots
AvailableSpots(e) == Max(0, events[e].capacity - ActiveCount(e))

\* a duplicate check that sees confirmed reservations only
ExistingReservationConfirmedOnly(u, e) ==
    Matching(reservations,
        LAMBDA r : r.event_id = e /\ r.user_id = u /\ r.status = "confirmed")

\* find_one({"event_id": e, "user_id": u, "status": {"$ne": "cancelled"}})
ExistingReservation(u, e) ==
    Matching(reservations,
        LAMBDA r : r.event_id = e /\ r.user_id = u /\ r.status # "cancelled")

\* insert_one under the unique index on reservation_code: no reservation
\* document has that field, every stored one holds the key null, and the
\* index admits one such document only
DuplicateKeyError ==
    /\ "reservations.reservation_code" \in indexes
    /\ reservations # <<>>

NewReservation(u, e) ==
    [id |-> Len(reservations) + 1, event_id |-> e, user_id |-> u,
     status |-> "confirmed", user_email |-> Missing]

\* api/reservations.py create_reservation: the checks, in order
CreateOutcome(u, e) ==
    IF e \notin DOMAIN events THEN "Event not found"
    ELSE IF ~events[e].published THEN "Event is not published"
    ELSE IF events[e].past THEN "Cannot reserve for past events"
    ELSE IF ExistingReservation(u, e) # {}
        THEN "You already have a reservation for this event"
    ELSE IF AvailableSpots(e) <= 0 THEN "Event is fully booked"
    ELSE IF DuplicateKeyError THEN "Failed to create reservation"
    ELSE "Reservation created successfully"

CreateReservation(u, e) ==
    /\ Len(reservations) < MaxReservations
       \/ CreateOutcome(u, e) # "Reservation created successfully"
    /\ response' = CreateOutcome(u, e)
    /\ reservations' =
         IF CreateOutcome(u, e) = "Reservation created successfully"
         THEN Append(reservations, NewReservation(u, e))
         ELSE reservations
    /\ UNCHANGED <<users, events, checkins, indexes, workers, call>>

\* server.py create_reservation (legacy): no published / past-date check
LegacyExistingReservation(u, e) ==
    Matching(reservations,
        LAMBDA r : r.event_id = e /\ r.user_id = u
                   /\ r.status \in {"confirmed", "checked_in"})

LegacyActiveCount(e) ==
    Cardinality(Matching(reservations,
        LAMBDA r : r.event_id = e /\ r.status \in {"confirmed", "checked_in"}))

LegacyCreateOutcome(u, e) ==
    IF e \notin DOMAIN events THEN "Event not found"
    ELSE IF UserById(u) = {} THEN "User not found"
    ELSE IF LegacyExistingReservation(u, e) # {}
        THEN "You already have a reservation for this event"
    ELSE IF LegacyActiveCount(e) >= events[e].capacity THEN "Event is fully booked"
    ELSE IF DuplicateKeyError THEN "E11000 duplicate key error"
    ELSE "Reservation created successfully"

LegacyCreateReservation(u, e) ==
    /\ Len(reservations) < MaxReservations
       \/ LegacyCreateOutcome(u, e) # "Reservation created successfully"
    /\ response' = LegacyCreateOutcome(u, e)
    /\ reservations' =
         IF LegacyCreateOutcome(u, e) = "Reservation created successfully"
         THEN Append(reservations, NewReservation(u, e))
         ELSE reservations
    /\ UNCHANGED <<users, events, checkins, indexes, workers, call>>

\* find_one({"id": rid})
ReservationById(rid) == Matching(reservations, LAMBDA r : r.id = rid)

\* update_one({"id": rid}, {"$set": {"status": st}})
SetStatus(rid, st) ==
    [i \in DOMAIN reservations |->
        IF i = First(ReservationById(rid))
        THEN [reservations[i] EXCEPT !.status = st]
        ELSE reservations[i]]

\* update_many({"id": {"$in": ids}, <filter on status>}, {"$set": {"status": st}})
SetStatusMany(ids, F(_), st) ==
    [i \in DOMAIN reservations |->
        IF reservations[i].id \in ids /\ F(reservations[i])
        THEN [reservations[i] EXCEPT !.status = st]
        ELSE reservations[i]]

\* api/reservations.py cancel_reservation: the checks, in order
CancelOutcome(u, rid) ==
    IF ReservationById(rid) = {} THEN "Reservation not found"
    ELSE LET r == reservations[First(ReservationById(rid))] IN
         IF r.user_id # u /\ ~IsAdmin(u)
             THEN "Not authorized to cancel this reservation"
         ELSE IF r.status = "cancelled" THEN "Reservation is already cancelled"
         ELSE IF r.event_id \in DOMAIN events /\ events[r.event_id].past
             THEN "Cannot cancel reservation for past events"
         ELSE "Reservation cancelled successfully"

CancelReservation(u, rid) ==
    /\ response' = CancelOutcome(u, rid)
    /\ reservations' =
         IF CancelOutcome(u, rid) = "Reservation cancelled successfully"
         THEN SetStatus(rid, "cancelled")
         ELSE reservations
    /\ UNCHANGED <<users, events, checkins, indexes, workers, call>>

\* server.py cancel_reservation (legacy): refuses a checked-in reservation
LegacyCancelOutcome(u, rid) ==
    IF ReservationById(rid) = {} THEN "Reservation not found"
    ELSE LET r == reservations[First(ReservationById(rid))] IN
         IF r.user_id # u /\ ~IsAdmin(u)
             THEN "Not authorized to cancel this reservation"
         ELSE IF r.status = "cancelled" THEN "Reservation is already cancelled"
         ELSE IF r.status = "checked_in"
             THEN "Cannot cancel a reservation that has already been checked in"
         ELSE "Reservation cancelled successfully"

LegacyCancelReservation(u, rid) ==
    /\ response' = LegacyCancelOutcome(u, rid)
    /\ reservations' =
         IF LegacyCancelOutcome(u, rid) = "Reservation cancelled successfully"
         THEN SetStatus(rid, "cancelled")
         ELSE reservations
    /\ UNCHANGED <<users, events, checkins, indexes, workers, call>>

\* server.py admin_cancel_reservation
AdminCancelOutcome(u, rid) ==
    IF ~IsAdmin(u) THEN "Admin access required"
    ELSE IF ReservationById(rid) = {} THEN "Reservation not found"
    ELSE IF reservations[First(ReservationById(rid))].status = "cancelled"
        THEN "Reservation already cancelled"
    ELSE "Reservation cancelled successfully"

AdminCancelReservation(u, rid) ==
    /\ response' = AdminCancelOutcome(u, rid)
    /\ reservations' =
         IF AdminCancelOutcome(u, rid) = "Reservation cancelled successfully"
         THEN SetStatus(rid, "cancelled")
         ELSE reservations
    /\ UNCHANGED <<users, events, checkins, indexes, workers, call>>

\* server.py admin_checkin_reservation
AdminCheckinOutcome(u, rid) ==
    IF ~IsAdmin(u) THEN "Admin access required"
    ELSE IF ReservationById(rid) = {} THEN "Reservation not found"
    ELSE IF reservations[First(ReservationById(rid))].status = "checked_in"
        THEN "Already checked in"
    ELSE IF reservations[First(ReservationById(rid))].status = "cancelled"
        THEN "Cannot check in cancelled reservation"
    ELSE "Reservation checked in successfully"

AdminCheckinReservation(u, rid) ==
    /\ response' = AdminCheckinOutcome(u, rid)
    /\ reservations' =
         IF AdminCheckinOutcome(u, rid) = "Reservation checked in successfully"
         THEN SetStatus(rid, "checked_in")
         ELSE reservations
    /\ UNCHANGED <<users, events, checkins, indexes, workers, call>>

\* server.py bulk_reservations_action
BulkReservationsAction(u, action, ids) ==
    /\ response' =
         IF ~IsAdmin(u) THEN "Admin access required"
         ELSE IF ids = {} THEN "Action and reservation_ids are required"
         ELSE "Bulk action done"
    /\ reservations' =
         IF ~IsAdmin(u) \/ ids = {} THEN reservations
         ELSE IF action = "cancel"
             THEN SetStatusMany(ids, LAMBDA r : r.status # "cancelled", "cancelled")
         ELSE IF action = "checkin"
             THEN SetStatusMany(ids, LAMBDA r : r.status = "confirmed", "checked_in")
         ELSE reservations
    /\ UNCHANGED <<users, events, checkins, indexes, workers, call>>

\* ------------------------------------------------------------- check-in
\* the "name" filter {"$regex": value, "$options": "i"}: which stored names
\* a search value matches
NameMatches(value, name) ==
    \/ value = "ana" /\ name \in {"ana", "anabel"}
    \/ value = "anabel" /\ name = "anabel"
    \/ value = "^ana$" /\ name = "ana"

\* utils/qr_codes.py decode_qr_data: the reservation id of a
\* "CCB-RESERVATION:<id>:<code>" payload, 0 for any other payload
DecodeQrReservation(qr) ==
    IF qr.type = "RESERVATION" /\ qr.id \in ReservationIds THEN qr.id ELSE 0

\* the request bodies: a QR payload is "CCB-<type>:<id>:..."
CheckInRequests ==
    [method : {"qr_code"}, qr : [type : {"RESERVATION"}, id : ReservationIds],
     value : {""}, event_id : {Missing}]
    \cup [method : {"qr_code"}, qr : [type : {"EVENT"}, id : {1}],
          value : {""}, event_id : {Missing}]
    \cup [method : {"email"}, qr : [type : {""}, id : {0}],
          value : {"u1@ccb.do", "u2@ccb.do", "x@ccb.do"},
          event_id : EventIds \cup {Missing}]
    \cup [method : {"name"}, qr : [type : {""}, id : {0}],
          value : {"ana", "anabel", "^ana$", "zoe"},
          event_id : EventIds \cup {Missing}]
    \cup [method : {"phone"}, qr : [type : {""}, id : {0}],
          value : {"8095550000"}, event_id : {Missing}]

\* find({"user_id": uid, "status": "confirmed"[, "event_id": ev]})
ConfirmedOf(uid, ev) ==
    Matching(reservations,
        LAMBDA r : r.user_id = uid /\ r.status = "confirmed"
                   /\ (ev = Missing \/ r.event_id = ev))

\* the reservation a user's confirmed reservations resolve to
ResolveConfirmed(uid, ev, who) ==
    IF ConfirmedOf(uid, ev) = {}
        THEN [msg |-> "No active reservations found for this " \o who, idx |-> 0]
    ELSE IF Cardinality(ConfirmedOf(uid, ev)) > 1 /\ ev = Missing
        THEN [msg |-> "Multiple reservations found. Please specify event.", idx |-> 0]
    ELSE [msg |-> "found", idx |-> First(ConfirmedOf(uid, ev))]

\* utils/validation.py validate_reservation_code: ^[A-Z0-9]{8}$
ValidateReservationCode(v) == v \in {"AB23CD45", "XY67ZW89", "QQ77WW66"}

\* api/checkin.py check_in_user, lines 26-141: the reservation the request
\* names, or the message it is refused with
CheckInLookup(req) ==
    IF req.method = "qr_code" THEN
        IF DecodeQrReservation(req.qr) = 0
            THEN [msg |-> "Invalid QR code format", idx |-> 0]
        ELSE IF ReservationById(DecodeQrReservation(req.qr)) = {}
            THEN [msg |-> "Reservation not found", idx |-> 0]
        ELSE [msg |-> "found",
              idx |-> First(ReservationById(DecodeQrReservation(req.qr)))]
    ELSE IF req.method = "email" THEN
        LET S == Matching(users, LAMBDA d : d.email = req.value /\ d.deleted # "True")
        IN IF S = {} THEN [msg |-> "User not found with this email", idx |-> 0]
           ELSE ResolveConfirmed(users[First(S)].id, req.event_id, "email")
    ELSE IF req.method = "name" THEN
        LET S == Matching(users,
                   LAMBDA d : NameMatches(req.value, d.name) /\ d.deleted # "True")
        IN IF S = {} THEN [msg |-> "User not found with this name", idx |-> 0]
           ELSE IF Cardinality(S) > 1
               THEN [msg |-> "Multiple users found with name", idx |-> 0]
           ELSE ResolveConfirmed(users[First(S)].id, req.event_id, "user")
    ELSE IF req.method = "reservation_code" THEN
        IF ~ValidateReservationCode(req.value)
            THEN [msg |-> "Invalid reservation code format", idx |-> 0]
        ELSE LET S == Matching(reservations, LAMBDA r : r.checkin_code = req.value)
             IN IF S = {} THEN [msg |-> "Reservation not found", idx |-> 0]
                ELSE [msg |-> "found", idx |-> First(S)]
    ELSE [msg |-> "Invalid check-in method", idx |-> 0]

\* a check-in that does not look at the reservation's status
CheckInOutcomeAnyStatus(a, req) ==
    IF ~IsAdmin(a) THEN "Admin privileges required"
    ELSE IF CheckInLookup(req).idx = 0 THEN CheckInLookup(req).msg
    ELSE LET r == reservations[CheckInLookup(req).idx] IN
         IF r.event_id \notin DOMAIN events \/ UserById(r.user_id) = {}
             THEN "Reservation details not found"
         ELSE "Check-in successful"

\* api/checkin.py check_in_user, lines 143-210: the checks on the reservation
CheckInOutcome(a, req) ==
    IF ~IsAdmin(a) THEN "Admin privileges required"
    ELSE IF CheckInLookup(req).idx = 0 THEN CheckInLookup(req).msg
    ELSE LET r == reservations[CheckInLookup(req).idx] IN
         IF r.status = "checked_in" THEN "User already checked in"
         ELSE IF r.status = "cancelled" THEN "Reservation has been cancelled"
         ELSE IF r.event_id \notin DOMAIN events \/ UserById(r.user_id) = {}
             THEN "Reservation details not found"
         ELSE "Check-in successful"

CheckinRecord(r) ==
    [reservation_id |-> r.id, event_id |-> r.event_id, user_id |-> r.user_id]

CheckInUser(a, req) ==
    /\ response' = CheckInOutcome(a, req)
    /\ IF CheckInOutcome(a, req) = "Check-in successful"
       THEN /\ reservations' =
                 SetStatus(reservations[CheckInLookup(req).idx].id, "checked_in")
            /\ checkins' =
                 Append(checkins, CheckinRecord(reservations[CheckInLookup(req).idx]))
       ELSE UNCHANGED <<reservations, checkins>>
    /\ UNCHANGED <<users, events, indexes, workers, call>>

\* server.py checkin_user (legacy): identifier "reservation:<id>" or an
\* email; the email resolves to the user's most recent confirmed reservation
LegacyIdentifiers ==
    [kind : {"id"}, id : ReservationIds, value : {""}]
    \cup [kind : {"email"}, id : {0}, value : {"u1@ccb.do", "u2@ccb.do", "x@ccb.do"}]
    \cup [kind : {"phone"}, id : {0}, value : {"8095550000"}]

Last(S) == CHOOSE i \in S : \A j \in S : j <= i

LegacyCheckinLookup(ident) ==
    IF ident.kind = "id" THEN
        IF ReservationById(ident.id) = {} THEN 0
        ELSE First(ReservationById(ident.id))
    ELSE IF ident.kind = "email" THEN
        LET S == Matching(users, LAMBDA d : d.email = ident.value)
        IN IF S = {} \/ ConfirmedOf(users[First(S)].id, Missing) = {} THEN 0
           ELSE Last(ConfirmedOf(users[First(S)].id, Missing))
    ELSE 0

LegacyCheckinOutcome(ident) ==
    IF LegacyCheckinLookup(ident) = 0
        THEN "500: No valid reservation found for this identifier"
    ELSE LET r == reservations[LegacyCheckinLookup(ident)] IN
         IF r.status = "checked_in" THEN "500: Already checked in"
         ELSE IF r.status = "cancelled"
             THEN "500: Cannot check in to a cancelled reservation"
         ELSE IF r.event_id \notin DOMAIN events \/ UserById(r.user_id) = {}
             THEN "500: checked in, then failed"
         ELSE "Successfully checked in"

LegacyCheckinUser(ident) ==
    /\ response' = LegacyCheckinOutcome(ident)
    /\ reservations' =
         IF LegacyCheckinOutcome(ident)
              \in {"Successfully checked in", "500: checked in, then failed"}
         THEN SetStatus(reservations[LegacyCheckinLookup(ident)].id, "checked_in")
         ELSE reservations
    /\ UNCHANGED <<users, events, checkins, indexes, workers, call>>

\* ------------------------------------------------------------ invitations
\* a match that ignores the user_email field
DeclineMatchAnyEmail(r, rid, email) ==
    r.id = rid /\ r.status \in {"confirmed", "pending"}

\* api/invitations.py decline_invitation_via_email: the reservation filter
\* {"id": ..., "user_email": ..., "status": {"$in": ["confirmed", "pending"]}}
DeclineMatch(r, rid, email) ==
    r.id = rid /\ r.user_email = email /\ r.status \in {"confirmed", "pending"}

DeclineOutcome(rid, email) ==
    IF Matching(reservations, LAMBDA r : DeclineMatch(r, rid, email)) = {}
    THEN "Invitation not found or already processed"
    ELSE "Invitation declined"

DeclineInvitation(rid, email) ==
    /\ response' = DeclineOutcome(rid, email)
    /\ reservations' =
         IF DeclineOutcome(rid, email) = "Invitation declined"
         THEN SetStatus(rid, "declined")
         ELSE reservations
    /\ UNCHANGED <<users, events, checkins, indexes, workers, call>>

\* ------------------------------------------------------------------ events
\* EventService.update_event: an administrator sets capacity and published
UpdateEvent(e, cap, pub) ==
    /\ e \in DOMAIN events
    /\ events' = [events EXCEPT ![e].capacity = cap, ![e].published = pub]
    /\ response' = "Event updated"
    /\ UNCHANGED <<users, reservations, checkins, indexes, workers, call>>

\* the clock passes the event's date: event_date < utcnow().date()
EventPasses(e) ==
    /\ e \in DOMAIN events
    /\ ~events[e].past
    /\ events' = [events EXCEPT ![e].past = TRUE]
    /\ UNCHANGED <<users, reservations, checkins, response, indexes, workers, call>>

\* ------------------------------------------- concurrent create_reservation
\* Two server processes handle create_reservation requests against the one
\* database; every database call is atomic, the handler is not.
WorkerIds == {"w1", "w2"}
Idle == [pc |-> "idle", user |-> "", event |-> "", spots |-> 0]
IdleWorkers == [w \in WorkerIds |-> Idle]
InFlight == Cardinality({w \in WorkerIds : workers[w].pc # "idle"})

\* api/reservations.py lines 31-50: get_event_by_id (event and count read)
\* and the published / past checks
StartCreate(w, u, e) ==
    /\ workers[w].pc = "idle"
    /\ Len(reservations) + InFlight < MaxReservations
    /\ IF e \notin DOMAIN events
       THEN response' = "Event not found" /\ UNCHANGED workers
       ELSE IF ~events[e].published
       THEN response' = "Event is not published" /\ UNCHANGED workers
       ELSE IF events[e].past
       THEN response' = "Cannot reserve for past events" /\ UNCHANGED workers
       ELSE /\ workers' = [workers EXCEPT ![w] =
                 [pc |-> "existing", user |-> u, event |-> e,
                  spots |-> AvailableSpots(e)]]
            /\ UNCHANGED response
    /\ UNCHANGED <<dbVars, call>>

\* api/reservations.py lines 52-70: the find_one for an existing
\* reservation, then the check of the available_spots read before
CheckExisting(w) ==
    /\ workers[w].pc = "existing"
    /\ IF ExistingReservation(workers[w].user, workers[w].event) # {}
       THEN /\ response' = "You already have a reservation for this event"
            /\ workers' = [workers EXCEPT ![w] = Idle]
       ELSE IF workers[w].spots <= 0
       THEN /\ response' = "Event is fully booked"
            /\ workers' = [workers EXCEPT ![w] = Idle]
       ELSE /\ workers' = [workers EXCEPT ![w].pc = "insert"]
            /\ UNCHANGED response
    /\ UNCHANGED <<dbVars, call>>

\* server.py lines 1315-1323: the event and user reads
LegacyStartCreate(w, u, e) ==
    /\ workers[w].pc = "idle"
    /\ Len(reservations) + InFlight < MaxReservations
    /\ IF e \notin DOMAIN events
       THEN response' = "Event not found" /\ UNCHANGED workers
       ELSE IF UserById(u) = {}
       THEN response' = "User not found" /\ UNCHANGED workers
       ELSE /\ workers' = [workers EXCEPT ![w] =
                 [pc |-> "l_existing", user |-> u, event |-> e,
                  spots |-> events[e].capacity]]
            /\ UNCHANGED response
    /\ UNCHANGED <<dbVars, call>>

\* server.py lines 1325-1331: the find_one for an existing reservation
LegacyCheckExisting(w) ==
    /\ workers[w].pc = "l_existing"
    /\ IF LegacyExistingReservation(workers[w].user, workers[w].event) # {}
       THEN /\ response' = "You already have a reservation for this event"
            /\ workers' = [workers EXCEPT ![w] = Idle]
       ELSE /\ workers' = [workers EXCEPT ![w].pc = "l_count"]
            /\ UNCHANGED response
    /\ UNCHANGED <<dbVars, call>>

\* server.py lines 1333-1341: count_documents against the capacity read
LegacyCheckCount(w) ==
    /\ workers[w].pc = "l_count"
    /\ IF LegacyActiveCount(workers[w].event) >= workers[w].spots
       THEN /\ response' = "Event is fully booked"
            /\ workers' = [workers EXCEPT ![w] = Idle]
       ELSE /\ workers' = [workers EXCEPT ![w].pc = "insert"]
            /\ UNCHANGED response
    /\ UNCHANGED <<dbVars, call>>

\* an insert under a unique index on the (user, event) pair
InsertOutcomeUniquePair(w) ==
    IF ExistingReservation(workers[w].user, workers[w].event) # {}
    THEN "Failed to create reservation"
    ELSE IF DuplicateKeyError THEN "Failed to create reservation"
    ELSE "Reservation created successfully"

\* an insert that checks the capacity again
InsertOutcomeRechecked(w) ==
    IF AvailableSpots(workers[w].event) <= 0
    THEN "Event is fully booked"
    ELSE IF DuplicateKeyError THEN "Failed to create reservation"
    ELSE "Reservation created successfully"

\* what insert_one does with the document a worker has prepared
InsertOutcome(w) ==
    IF DuplicateKeyError THEN "Failed to create reservation"
    ELSE "Reservation created successfully"

\* api/reservations.py line 89, server.py line 1366: insert_one
InsertReservation(w) ==
    /\ workers[w].pc = "insert"
    /\ response' = InsertOutcome(w)
    /\ reservations' =
         IF InsertOutcome(w) = "Reservation created successfully"
         THEN Append(reservations, NewReservation(workers[w].user, workers[w].event))
         ELSE reservations
    /\ workers' = [workers EXCEPT ![w] = Idle]
    /\ UNCHANGED <<users, events, checkins, indexes, call>>

Init ==
    /\ users = SeedUsers
    /\ events \in [EventIds -> [capacity : 1..MaxCapacity,
                                published : {TRUE}, past : {FALSE}]]
    /\ reservations = <<>>
    /\ checkins = <<>>
    /\ indexes \in Deployments
    /\ response = "none"
    /\ workers = IdleWorkers
    /\ call = NoCall

Next ==
    \/ \E u \in UserIds, e \in EventIds \cup {NoEvent} : CreateReservation(u, e)
    \/ \E u \in UserIds, e \in EventIds \cup {NoEvent} : LegacyCreateReservation(u, e)
    \/ \E u \in UserIds, rid \in ReservationIds : CancelReservation(u, rid)
    \/ \E u \in UserIds, rid \in ReservationIds : LegacyCancelReservation(u, rid)
    \/ \E u \in UserIds, rid \in ReservationIds : AdminCancelReservation(u, rid)
    \/ \E u \in UserIds, rid \in ReservationIds : AdminCheckinReservation(u, rid)
    \/ \E u \in UserIds, a \in {"cancel", "checkin"}, ids \in SUBSET ReservationIds :
          BulkReservationsAction(u, a, ids)
    \/ \E a \in UserIds, req \in CheckInRequests : CheckInUser(a, req)
    \/ \E ident \in LegacyIdentifiers : LegacyCheckinUser(ident)
    \/ \E rid \in ReservationIds, em \in {"u1@ccb.do", "u2@ccb.do"} :
          DeclineInvitation(rid, em)
    \/ \E e \in EventIds, cap \in 1..MaxCapacity, pub \in BOOLEAN :
          UpdateEvent(e, cap, pub)
    \/ \E e \in EventIds : EventPasses(e)

Spec == Init /\ [][Next]_vars

\* requests handled by two processes at once
NextConc ==
    \/ \E w \in WorkerIds, u \in UserIds, e \in EventIds \cup {NoEvent} :
          StartCreate(w, u, e)
    \/ \E w \in WorkerIds : CheckExisting(w)
    \/ \E w \in WorkerIds, u \in UserIds, e \in EventIds \cup {NoEvent} :
          LegacyStartCreate(w, u, e)
    \/ \E w \in WorkerIds : LegacyCheckExisting(w)
    \/ \E w \in WorkerIds : LegacyCheckCount(w)
    \/ \E w \in WorkerIds : InsertReservation(w)
    \/ \E u \in UserIds, rid \in ReservationIds : CancelReservation(u, rid)
    \/ \E e \in EventIds, cap \in 1..MaxCapacity, pub \in BOOLEAN :
          UpdateEvent(e, cap, pub)

SpecConc == Init /\ [][NextConc]_vars

\* ----------------------------------------------- analytics/segmentation.py
\* The state the pure services run against: the seeded database, untouched.
Quiescent ==
    /\ users = SeedUsers
    /\ events = [e \in EventIds |->
                   [capacity |-> 1, published |-> TRUE, past |-> FALSE]]
    /\ reservations = <<>>
    /\ checkins = <<>>
    /\ indexes = ModularIndexes
    /\ response = "none"
    /\ workers = IdleWorkers
otherVars == <<users, events, reservations, checkins, indexes, response, workers>>

\* largest feature table handed to train_segmentation_model
MaxPopulation == 6
\* UserSegmentation.__init__: self.min_users_for_ml
min_users_for_ml == 5
\* columns of the feature table other than user_id
num_features == 26
\* a float that is not a number, among the non-negative scores
NaN == -1

\* int(np.sqrt(n))
ISqrt(n) == CHOOSE r \in 0..n : r * r <= n /\ (r + 1) * (r + 1) > n

\* the feature tables: one row per user
FeatureTables ==
    UNION {[1..n -> [total_reservations : 0..2]] : n \in 0..MaxPopulation}

\* df['engagement_score']: total_reservations * 0.4 plus the missing
\* total_events_attended column, a one-row series aligned on the index, so
\* every row but the first is NaN (scores in tenths)
EngagementScore(df, i) ==
    IF i = 1 THEN 4 * df[i].total_reservations ELSE NaN

\* np.percentile over the scores: NaN as soon as one score is NaN
Percentile(df, q) ==
    IF \E i \in DOMAIN df : EngagementScore(df, i) = NaN THEN NaN
    ELSE LET S == {EngagementScore(df, i) : i \in DOMAIN df}
         IN CHOOSE m \in S : \A x \in S : m <= x

\* assign_cluster: a comparison with NaN is false
AssignCluster(score, q33, q66) ==
    IF score # NaN /\ q33 # NaN /\ score <= q33 THEN 0
    ELSE IF score # NaN /\ q66 # NaN /\ score <= q66 THEN 1
    ELSE 2

\* _simple_statistical_segmentation
SimpleStatisticalSegmentation(df) ==
    LET n == Len(df)
        cluster == IF n = 1 THEN <<0>>
                   ELSE IF n = 2 THEN <<0, 1>>
                   ELSE [i \in 1..n |->
                           AssignCluster(EngagementScore(df, i),
                                         Percentile(df, 33), Percentile(df, 66))]
    IN [raised |-> FALSE,
        model_type |-> "statistical_segmentation",
        num_users |-> n,
        cluster |-> cluster,
        num_clusters |-> Cardinality({cluster[i] : i \in 1..n}),
        silhouette_score |-> -1,
        is_trained |-> FALSE]

\* a threshold test that sends a population of exactly five to the fallback
TooFewForMLInclusive(n) == n <= min_users_for_ml

\* if num_users < self.min_users_for_ml
TooFewForML(n) == n < min_users_for_ml

\* train_segmentation_model
TrainSegmentationModel(df) ==
    LET n == Len(df)
    IN IF n = 0
       THEN [raised |-> TRUE, error |-> "No user data available for training",
             model_type |-> "none", is_trained |-> FALSE]
       ELSE IF TooFewForML(n)
       THEN SimpleStatisticalSegmentation(df)
       ELSE [raised |-> FALSE,
             model_type |-> "ml_clustering",
             num_users |-> n,
             num_features |-> num_features,
             pca_components |-> Max(1, Min(3, Min(num_features, n - 1))),
             optimal_clusters |-> Max(2, Min(5, ISqrt(n))),
             is_trained |-> TRUE]

Train ==
    /\ call.fn = "train_segmentation_model"
    /\ ~call.done
    /\ call' = [call EXCEPT !.done = TRUE] @@ [ret |-> TrainSegmentationModel(call.args)]
    /\ UNCHANGED otherVars

InitSegmentation ==
    /\ Quiescent
    /\ call \in {[fn |-> "train_segmentation_model", done |-> FALSE, args |-> df] :
                   df \in FeatureTables}

SpecSegmentation == InitSegmentation /\ [][Train]_vars

\* _determine_cluster_name. Averages are carried as integers: reservations,
\* check-in rate and page views in tenths, events per day in hundredths,
\* days since registration in whole days.
ClusterSummaries ==
    LET base == [avg_reservations : {0, 10, 11, 30, 31},
                 avg_checkin_rate : {0, 6, 7, 8, 9},
                 avg_days_since_registration : {0, 6, 7, 30, 31},
                 avg_events_per_day : {0, 9, 10}]
    IN base \cup {c @@ [cluster_id |-> k] : c \in base, k \in {0, 2}}

\* the rows of the cluster: the means of the columns the rules read; the
\* page_views column may be absent from the frame
ClusterFrames(avg_reservations) ==
    {[total_reservations |-> avg_reservations]}
      \cup {[total_reservations |-> avg_reservations, page_views |-> v] :
              v \in {0, 31, 94}}

\* characteristics.get('cluster_id', 0)
ClusterIdOr0(characteristics) ==
    IF "cluster_id" \in DOMAIN characteristics THEN characteristics.cluster_id ELSE 0

\* the rules from 'Browsers' on
DetermineLaterRules(characteristics, cluster_data) ==
    IF "page_views" \notin DOMAIN cluster_data
    THEN "Unknown Segment"
    ELSE IF cluster_data.page_views > cluster_data.total_reservations * 3
    THEN "Browsers"
    ELSE IF characteristics.avg_days_since_registration > 30
            /\ characteristics.avg_events_per_day < 10
    THEN "At Risk"
    ELSE "Segment " \o ToString(ClusterIdOr0(characteristics))

\* a cascade that tests 'Regular Attendees' before 'VIP Members'
DetermineClusterNameRegularFirst(characteristics, cluster_data) ==
    IF characteristics.avg_reservations > 10
       /\ characteristics.avg_checkin_rate > 6
    THEN "Regular Attendees"
    ELSE IF characteristics.avg_reservations > 30
            /\ characteristics.avg_checkin_rate > 8
    THEN "VIP Members"
    ELSE IF characteristics.avg_days_since_registration < 7
    THEN "New Users"
    ELSE DetermineLaterRules(characteristics, cluster_data)

\* _determine_cluster_name: the cascade; a missing column raises inside the
\* try and the except answers "Unknown Segment"
DetermineClusterName(characteristics, cluster_data) ==
    IF characteristics.avg_reservations > 30
       /\ characteristics.avg_checkin_rate > 8
    THEN "VIP Members"
    ELSE IF characteristics.avg_reservations > 10
            /\ characteristics.avg_checkin_rate > 6
    THEN "Regular Attendees"
    ELSE IF characteristics.avg_days_since_registration < 7
    THEN "New Users"
    ELSE DetermineLaterRules(characteristics, cluster_data)

NameCluster ==
    /\ call.fn = "_determine_cluster_name"
    /\ ~call.done
    /\ call' = [call EXCEPT !.done = TRUE]
                 @@ [ret |-> DetermineClusterName(call.characteristics, call.cluster_data)]
    /\ UNCHANGED otherVars

InitClusterName ==
    /\ Quiescent
    /\ call \in {[fn |-> "_determine_cluster_name", done |-> FALSE,
                  characteristics |-> c, cluster_data |-> d] :
                   c \in ClusterSummaries, d \in UNION {ClusterFrames(r) : r \in {0, 10, 11, 30, 31}}}
    /\ call.cluster_data.total_reservations = call.characteristics.avg_reservations

SpecClusterName == InitClusterName /\ [][NameCluster]_vars

\* ------------------------------------- services/interest_detection_service.py
\* self.time_decay, in tenths
time_decay == [recent |-> 10, medium |-> 7, old |-> 4]
\* the weight of a date the try block could not handle, in tenths
InvalidDateWeight == 1

\* An activity date as the caller passes it: the form of the string and, for
\* a string that names an instant, the whole days from it to now.
DateForms == {"naive", "utc_z", "offset", "not_a_date", "empty"}
AgesInDays == {-1, 0, 30, 31, 90, 91, 400}
ActivityDates == [form : DateForms, days_ago : AgesInDays]

\* datetime.fromisoformat(activity_date.replace('Z', '+00:00')): a ValueError
\* for a string that is no ISO date, else a datetime, timezone-aware when the
\* string carries 'Z' or an offset
FromIsoFormat(activity_date) ==
    IF activity_date.form \in {"not_a_date", "empty"}
    THEN [raised |-> TRUE]
    ELSE [raised |-> FALSE,
          aware |-> activity_date.form \in {"utc_z", "offset"},
          days_ago |-> activity_date.days_ago]

\* (now - activity_dt).days with now = datetime.utcnow(), a naive datetime:
\* subtracting an aware datetime from it raises TypeError
DaysAgo(activity_dt) ==
    IF activity_dt.aware
    THEN [raised |-> TRUE]
    ELSE [raised |-> FALSE, days |-> activity_dt.days_ago]

\* calculate_time_weight
CalculateTimeWeight(activity_date) ==
    LET activity_dt == FromIsoFormat(activity_date)
    IN IF activity_dt.raised THEN InvalidDateWeight
       ELSE LET days_ago == DaysAgo(activity_dt)
            IN IF days_ago.raised THEN InvalidDateWeight
               ELSE IF days_ago.days <= 30 THEN time_decay.recent
               ELSE IF days_ago.days <= 90 THEN time_decay.medium
               ELSE time_decay.old

\* the weights of two activities of one analysis
WeighActivities ==
    /\ call.fn = "calculate_time_weight"
    /\ ~call.done
    /\ call' = [call EXCEPT !.done = TRUE]
                 @@ [ret |-> [i \in 1..2 |-> CalculateTimeWeight(call.args[i])]]
    /\ UNCHANGED otherVars

InitTimeWeight ==
    /\ Quiescent
    /\ call \in {[fn |-> "calculate_time_weight", done |-> FALSE, args |-> <<a, b>>] :
                   a \in ActivityDates, b \in ActivityDates}

SpecTimeWeight == InitTimeWeight /\ [][WeighActivities]_vars

\* generate_recommendations. Interest scores are in tenths,
\* recommendation scores in hundredths.
MaxCatalogue == 6
\* .limit(5) on the events query
QueryLimit == 5
\* recommendations[:3]
TopN == 3
UserCenter == "santo-domingo"

\* the events collection, in insertion order; dates are day numbers, no
\* two events on one day
CatalogueDate(i) == ((3 * i) % 7) + 1
EventShapes ==
    { [category |-> "Conciertos", time |-> "20:00", center |-> UserCenter, published |-> TRUE],
      [category |-> "Conciertos", time |-> "", center |-> UserCenter, published |-> TRUE],
      [category |-> "Talleres", time |-> "10:00", center |-> UserCenter, published |-> TRUE],
      [category |-> "Cinema Dominicano", time |-> "15:00", center |-> UserCenter, published |-> TRUE],
      [category |-> "Conciertos", time |-> "20:00", center |-> "santiago", published |-> FALSE] }
Catalogues ==
    {[i \in 1..MaxCatalogue |-> s[i] @@ [id |-> i, date |-> CatalogueDate(i)]] :
        s \in [1..MaxCatalogue -> EventShapes]}

\* interest_scores: a Counter, as the pairs it holds in insertion order
InterestCounters ==
    { <<>>,
      << <<"Charlas", 45>>, <<"Conciertos", 15>>, <<"Cinema Dominicano", 5>>,
         <<"Talleres", 30>> >> }

\* Counter.most_common(3): by count, largest first, ties in insertion order
MostCommon(interest_scores, n) ==
    {interest_scores[i][1] : i \in
        {i \in DOMAIN interest_scores :
            Cardinality({j \in DOMAIN interest_scores :
                \/ interest_scores[j][2] > interest_scores[i][2]
                \/ interest_scores[j][2] = interest_scores[i][2] /\ j < i}) < n}}

\* top_categories, with the defaults of a user without interests
TopCategories(interest_scores) ==
    IF MostCommon(interest_scores, 3) = {}
    THEN {"Conciertos", "Cinema Dominicano", "Talleres"}
    ELSE MostCommon(interest_scores, 3)

\* interest_scores.get(category, 0)
CategoryScore(interest_scores, category) ==
    IF \E i \in DOMAIN interest_scores : interest_scores[i][1] = category
    THEN interest_scores[CHOOSE i \in DOMAIN interest_scores :
                            interest_scores[i][1] = category][2]
    ELSE 0

\* the filter of the events query
MatchesQuery(event, interest_scores, today) ==
    /\ event.category \in TopCategories(interest_scores)
    /\ event.center = UserCenter
    /\ event.date >= today
    /\ event.published

\* the sequence of the members of S in the order of key, smallest first;
\* key is one-to-one on S
SortedBy(S, key(_)) ==
    [k \in 1..Cardinality(S) |->
        CHOOSE x \in S : Cardinality({y \in S : key(y) < key(x)}) = k - 1]

\* a query that fetches every matching event
UpcomingEventsUnlimited(catalogue, interest_scores, today) ==
    LET found == {i \in DOMAIN catalogue :
                     MatchesQuery(catalogue[i], interest_scores, today)}
    IN SortedBy(found, LAMBDA i : catalogue[i].date)

\* find(...).sort("date", 1).limit(5): indexes into the catalogue
UpcomingEvents(catalogue, interest_scores, today) ==
    LET found == {i \in DOMAIN catalogue :
                     MatchesQuery(catalogue[i], interest_scores, today)}
        byDate == SortedBy(found, LAMBDA i : catalogue[i].date)
    IN SubSeq(byDate, 1, Min(QueryLimit, Len(byDate)))

\* rec_score = category_score * time_boost; the boost is 1.2 when the hour
\* of the time parses and 1.0 when the time is empty
RecommendationScore(event, interest_scores) ==
    CategoryScore(interest_scores, event.category)
        * (IF event.time # "" THEN 12 ELSE 10)

\* generate_recommendations: score the fetched events, sort by score with
\* the larger first (a stable sort: ties keep the fetched order), keep three
GenerateRecommendations(catalogue, interest_scores, today) ==
    LET fetched == UpcomingEvents(catalogue, interest_scores, today)
        score(k) == RecommendationScore(catalogue[fetched[k]], interest_scores)
        \* a key that orders by score descending, then by fetched position
        ranked == SortedBy(DOMAIN fetched,
                           LAMBDA k : (0 - score(k)) * (MaxCatalogue + 2) + k)
    IN [r \in 1..Min(TopN, Len(fetched)) |->
          [event_id |-> catalogue[fetched[ranked[r]]].id,
           recommendation_score |-> score(ranked[r])]]

Recommend ==
    /\ call.fn = "generate_recommendations"
    /\ ~call.done
    /\ call' = [call EXCEPT !.done = TRUE]
                 @@ [ret |-> GenerateRecommendations(call.catalogue,
                                                     call.interest_scores, call.today)]
    /\ UNCHANGED otherVars

InitRecommendations ==
    /\ Quiescent
    /\ call \in {[fn |-> "generate_recommendations", done |-> FALSE,
                  catalogue |-> c, interest_scores |-> s, today |-> t] :
                   c \in Catalogues, s \in InterestCounters, t \in {1, 3}}

SpecRecommendations == InitRecommendations /\ [][Recommend]_vars

\* ------------------------------------------------- registration and login
\* services/user_service.py behind api/auth.py, and the handlers of
\* server.py, on the one users collection.
MaxAccounts == 4
Emails == {"u1@ccb.do", "eva@ccb.do", "luis@ccb.do"}
Passwords == {"Clave123", "Otra4567", "corta"}
NewUserIds == <<"u1", "u2", "u3", "u4", "u5", "u6">>

\* hash_password and verify_password (bcrypt)
HashPassword(password) == <<"bcrypt", password>>
VerifyPassword(password, hashed_password) == hashed_password = HashPassword(password)

\* utils/validation.py validate_user_data: the password rules
ValidUserData(password) == password # "corta"

\* find_one({"email": email})
UserByEmail(email) == Matching(users, LAMBDA d : d.email = email)

\* find_one({"email": email, "deleted": False}): a document without the
\* field does not match
ActiveUserByEmail(email) ==
    Matching(users, LAMBDA d : d.email = email /\ d.deleted = "False")

\* get_user_by_id: find_one({"id": user_id, "deleted": False})
ActiveUserById(uid) ==
    Matching(users, LAMBDA d : d.id = uid /\ d.deleted = "False")

\* UserService.create_user behind POST /register
RegisterOutcome(email, password) ==
    IF ~ValidUserData(password) THEN "Password must be at least 8 characters long"
    ELSE IF UserByEmail(email) # {} THEN "Email already registered"
    ELSE "User registered successfully"

Register(email, password) ==
    /\ Len(users) < MaxAccounts \/ RegisterOutcome(email, password) # "User registered successfully"
    /\ response' = RegisterOutcome(email, password)
    /\ users' = IF RegisterOutcome(email, password) = "User registered successfully"
                THEN Append(users,
                       [id |-> NewUserIds[Len(users) + 1], email |-> email,
                        name |-> "eva", password |-> HashPassword(password),
                        is_admin |-> FALSE, deleted |-> "False",
                        last_login |-> "None"])
                ELSE users
    /\ call' = [fn |-> "register", done |-> TRUE, email |-> email, password |-> password]
    /\ UNCHANGED <<events, reservations, checkins, indexes, workers>>

\* server.py register: no password rules, no deleted field
LegacyRegisterOutcome(email) ==
    IF UserByEmail(email) # {} THEN "Email already registered"
    ELSE "User registered successfully"

LegacyRegister(email, password) ==
    /\ Len(users) < MaxAccounts \/ LegacyRegisterOutcome(email) # "User registered successfully"
    /\ response' = LegacyRegisterOutcome(email)
    /\ users' = IF LegacyRegisterOutcome(email) = "User registered successfully"
                THEN Append(users,
                       [id |-> NewUserIds[Len(users) + 1], email |-> email,
                        name |-> "eva", password |-> HashPassword(password),
                        is_admin |-> FALSE, deleted |-> Missing,
                        last_login |-> Missing])
                ELSE users
    /\ call' = [fn |-> "legacy_register", done |-> TRUE, email |-> email, password |-> password]
    /\ UNCHANGED <<events, reservations, checkins, indexes, workers>>

\* UserService.authenticate_user behind POST /login
AuthenticateUser(email, password) ==
    IF ActiveUserByEmail(email) = {}
    THEN [status |-> 401, detail |-> "Invalid email or password"]
    ELSE LET user == users[First(ActiveUserByEmail(email))]
         IN IF ~VerifyPassword(password, user.password)
            THEN [status |-> 401, detail |-> "Invalid email or password"]
            ELSE [status |-> 200, access_token |-> [sub |-> user.id, email |-> user.email],
                  user |-> user.id]

Login(email, password) ==
    /\ call' = [fn |-> "login", done |-> TRUE, email |-> email, password |-> password,
                ret |-> AuthenticateUser(email, password)]
    /\ response' = IF AuthenticateUser(email, password).status = 200
                   THEN "login" ELSE AuthenticateUser(email, password).detail
    \* update_one({"id": user["id"]}, {"$set": {"last_login": ...}})
    /\ users' = IF AuthenticateUser(email, password).status = 200
                THEN [i \in DOMAIN users |->
                        IF users[i].id = AuthenticateUser(email, password).user
                        THEN [users[i] EXCEPT !.last_login = "set"] ELSE users[i]]
                ELSE users
    /\ UNCHANGED <<events, reservations, checkins, indexes, workers>>

\* server.py login: the except clause turns each 401 into a 500
LegacyAuthenticate(email, password) ==
    IF UserByEmail(email) = {}
    THEN [status |-> 500, detail |-> "401: Invalid credentials"]
    ELSE LET user_doc == users[First(UserByEmail(email))]
         IN IF ~VerifyPassword(password, user_doc.password)
            THEN [status |-> 500, detail |-> "401: Invalid credentials"]
            ELSE [status |-> 200, access_token |-> [sub |-> user_doc.id],
                  user |-> user_doc.id]

LegacyLogin(email, password) ==
    /\ call' = [fn |-> "legacy_login", done |-> TRUE, email |-> email, password |-> password,
                ret |-> LegacyAuthenticate(email, password)]
    /\ response' = IF LegacyAuthenticate(email, password).status = 200
                   THEN "login" ELSE LegacyAuthenticate(email, password).detail
    /\ UNCHANGED <<users, events, reservations, checkins, indexes, workers>>

\* api/users.py delete_user: a soft delete by an administrator
DeleteUserOutcome(admin, uid) ==
    IF ~IsAdmin(admin) THEN "Admin privileges required"
    ELSE IF ActiveUserById(uid) = {} THEN "User not found"
    ELSE IF admin = uid THEN "Cannot delete your own account"
    ELSE "User deleted successfully"

DeleteUser(admin, uid) ==
    /\ response' = DeleteUserOutcome(admin, uid)
    /\ users' = IF DeleteUserOutcome(admin, uid) = "User deleted successfully"
                THEN [i \in DOMAIN users |->
                        IF users[i].id = uid
                        THEN [users[i] EXCEPT !.deleted = "True"] ELSE users[i]]
                ELSE users
    /\ call' = [fn |-> "delete_user", done |-> TRUE]
    /\ UNCHANGED <<events, reservations, checkins, indexes, workers>>

\* api/users.py bulk_user_action with action "activate"
ActivateUsers(admin, ids) ==
    /\ response' = IF ~IsAdmin(admin) THEN "Admin privileges required"
                   ELSE IF ids = {} THEN "No user IDs provided"
                   ELSE IF admin \in ids
                   THEN "Cannot perform bulk actions on your own account"
                   ELSE "Bulk action completed successfully"
    /\ users' = IF response' = "Bulk action completed successfully"
                THEN [i \in DOMAIN users |->
                        IF users[i].id \in ids
                        THEN [users[i] EXCEPT !.deleted = "False"] ELSE users[i]]
                ELSE users
    /\ call' = [fn |-> "bulk_user_action", done |-> TRUE]
    /\ UNCHANGED <<events, reservations, checkins, indexes, workers>>

AccountIds == {"u1", "u2", "u3", "u4"}

\* api/auth.py forgot_password over a users collection: email_sent is what
\* send_password_reset_email returns (both values get the same message)
ForgotPasswordOutcomeIn(coll, email, email_sent) ==
    IF Matching(coll, LAMBDA d : d.email = email /\ d.deleted = "False") = {}
    THEN "If the email exists, a password reset link has been sent"
    ELSE IF email_sent
    THEN "Password reset link has been sent to your email"
    ELSE "Password reset link has been sent to your email"

ForgotPassword(email, email_sent) ==
    /\ call' = [fn |-> "forgot_password", done |-> TRUE, email |-> email,
                email_sent |-> email_sent,
                ret |-> [status |-> 200,
                         detail |-> ForgotPasswordOutcomeIn(users, email, email_sent)]]
    /\ response' = ForgotPasswordOutcomeIn(users, email, email_sent)
    /\ UNCHANGED <<dbVars, workers>>

NextAuth ==
    \/ \E em \in Emails, pw \in Passwords : Register(em, pw)
    \/ \E em \in Emails, pw \in Passwords : LegacyRegister(em, pw)
    \/ \E em \in Emails, pw \in Passwords : Login(em, pw)
    \/ \E em \in Emails, pw \in Passwords : LegacyLogin(em, pw)
    \/ \E a \in {"u1", "u2"}, uid \in AccountIds : DeleteUser(a, uid)
    \/ \E a \in {"u1", "u2"}, ids \in SUBSET {"u1", "u3", "u4"} : ActivateUsers(a, ids)
    \/ \E em \in Emails, email_sent \in BOOLEAN : ForgotPassword(em, email_sent)

InitAuth == Quiescent /\ call = NoCall

SpecAuth == InitAuth /\ [][NextAuth]_vars

\* ------------------------------------------- the two implementations compared
\* One request of the reservation workflow, put to the modular API and to
\* server.py on the same data. While both have answered alike their
\* databases are equal, so reservations holds the data of both.
CompatRequests ==
    [op : {"create"}, user : UserIds, event : EventIds]
    \cup [op : {"cancel"}, user : UserIds, rid : ReservationIds]
    \cup [op : {"checkin"}, admin : {"u2"}, rid : ReservationIds]
    \cup [op : {"checkin_email"}, admin : {"u2"}, email : {"u1@ccb.do", "u2@ccb.do"}]

\* the body the modular check_in_user takes for a request
ModularCheckInBody(req) ==
    IF req.op = "checkin"
    THEN [method |-> "qr_code", qr |-> [type |-> "RESERVATION", id |-> req.rid],
          value |-> "", event_id |-> Missing]
    ELSE [method |-> "email", qr |-> [type |-> "", id |-> 0],
          value |-> req.email, event_id |-> Missing]

\* the identifier the legacy checkin_user takes for a request
LegacyCheckInBody(req) ==
    IF req.op = "checkin"
    THEN [kind |-> "id", id |-> req.rid, value |-> ""]
    ELSE [kind |-> "email", id |-> 0, value |-> req.email]

\* the modular API's answer: whether it accepts, and the reservations after
ModularAnswer(req) ==
    IF req.op = "create" THEN
        IF CreateOutcome(req.user, req.event) = "Reservation created successfully"
        THEN [accepted |-> TRUE,
              after |-> Append(reservations, NewReservation(req.user, req.event))]
        ELSE [accepted |-> FALSE, after |-> reservations]
    ELSE IF req.op = "cancel" THEN
        IF CancelOutcome(req.user, req.rid) = "Reservation cancelled successfully"
        THEN [accepted |-> TRUE, after |-> SetStatus(req.rid, "cancelled")]
        ELSE [accepted |-> FALSE, after |-> reservations]
    ELSE
        IF CheckInOutcome(req.admin, ModularCheckInBody(req)) = "Check-in successful"
        THEN [accepted |-> TRUE,
              after |-> SetStatus(
                  reservations[CheckInLookup(ModularCheckInBody(req)).idx].id,
                  "checked_in")]
        ELSE [accepted |-> FALSE, after |-> reservations]

\* the answer of server.py to the same request
LegacyAnswer(req) ==
    IF req.op = "create" THEN
        IF LegacyCreateOutcome(req.user, req.event) = "Reservation created successfully"
        THEN [accepted |-> TRUE,
              after |-> Append(reservations, NewReservation(req.user, req.event))]
        ELSE [accepted |-> FALSE, after |-> reservations]
    ELSE IF req.op = "cancel" THEN
        IF LegacyCancelOutcome(req.user, req.rid) = "Reservation cancelled successfully"
        THEN [accepted |-> TRUE, after |-> SetStatus(req.rid, "cancelled")]
        ELSE [accepted |-> FALSE, after |-> reservations]
    ELSE
        LET out == LegacyCheckinOutcome(LegacyCheckInBody(req))
        IN [accepted |-> out = "Successfully checked in",
            after |-> IF out \in {"Successfully checked in",
                                  "500: checked in, then failed"}
                      THEN SetStatus(
                             reservations[LegacyCheckinLookup(LegacyCheckInBody(req))].id,
                             "checked_in")
                      ELSE reservations]

StatusesOf(rs) == [i \in DOMAIN rs |-> rs[i].status]

\* put one request to both implementations
BothHandle(req) ==
    /\ call.fn = "none" \/ (call.fn = "both" /\ call.agree)
    /\ req.op = "create" => Len(reservations) < MaxReservations
    /\ reservations' = ModularAnswer(req).after
    /\ checkins' = IF req.op \in {"checkin", "checkin_email"} /\ ModularAnswer(req).accepted
                   THEN Append(checkins, CheckinRecord(
                          reservations[CheckInLookup(ModularCheckInBody(req)).idx]))
                   ELSE checkins
    /\ response' = IF ModularAnswer(req).accepted THEN "accepted" ELSE "rejected"
    /\ call' = [fn |-> "both", done |-> TRUE, req |-> req,
                modular |-> ModularAnswer(req).accepted,
                legacy |-> LegacyAnswer(req).accepted,
                legacy_statuses |-> StatusesOf(LegacyAnswer(req).after),
                agree |-> /\ ModularAnswer(req).accepted = LegacyAnswer(req).accepted
                          /\ StatusesOf(ModularAnswer(req).after)
                               = StatusesOf(LegacyAnswer(req).after)]
    /\ UNCHANGED <<users, events, indexes, workers>>

NextCompat == \E req \in CompatRequests : BothHandle(req)

SpecCompat == Init /\ [][NextCompat]_vars

\* ------------------------------------------------------- check-in codes
\* Reservations with the checkin_code they are stored with.  The generators
\* draw 8 characters at random; Codes are the draws that happen here.
MaxDraws == 2
Codes == {"AB23CD45", "XY67ZW89"}

\* api/reservations.py lines 77-86, server.py lines 1356-1364: the document
CodedReservation(u, e, code) ==
    [id |-> Len(reservations) + 1, event_id |-> e, user_id |-> u,
     status |-> "confirmed", user_email |-> Missing, checkin_code |-> code]

\* api/reservations.py create_reservation: line 74 takes whatever
\* generate_reservation_code() returns and line 89 stores it
CreateReservationCode(u, e, code) ==
    /\ Len(reservations) < MaxReservations
       \/ CreateOutcome(u, e) # "Reservation created successfully"
    /\ response' = CreateOutcome(u, e)
    /\ reservations' =
         IF CreateOutcome(u, e) = "Reservation created successfully"
         THEN Append(reservations, CodedReservation(u, e, code))
         ELSE reservations
    /\ UNCHANGED <<users, events, checkins, indexes, workers, call>>

\* find_one({"checkin_code": code})
ByCheckinCode(code) == Matching(reservations, LAMBDA r : r.checkin_code = code)

\* server.py lines 1346-1349: draw again while the code is stored; draws is
\* what generate_checkin_code() returns call after call
RECURSIVE FirstFresh(_)
FirstFresh(draws) ==
    IF draws = <<>> THEN Missing
    ELSE IF ByCheckinCode(Head(draws)) = {} THEN Head(draws)
    ELSE FirstFresh(Tail(draws))

DrawSequences == UNION {[1..n -> Codes] : n \in 1..MaxDraws}

\* server.py create_reservation with its code loop
LegacyCreateReservationCode(u, e, draws) ==
    /\ Len(reservations) < MaxReservations
       \/ LegacyCreateOutcome(u, e) # "Reservation created successfully"
    /\ LegacyCreateOutcome(u, e) \in {"Reservation created successfully",
                                     "E11000 duplicate key error"}
         => FirstFresh(draws) # Missing
    /\ response' = LegacyCreateOutcome(u, e)
    /\ reservations' =
         IF LegacyCreateOutcome(u, e) = "Reservation created successfully"
         THEN Append(reservations, CodedReservation(u, e, FirstFresh(draws)))
         ELSE reservations
    /\ UNCHANGED <<users, events, checkins, indexes, workers, call>>

\* check-in requests by code; "ab23cd45" fails the format check
CodeRequests ==
    [method : {"reservation_code"}, qr : [type : {""}, id : {0}],
     value : Codes \cup {"QQ77WW66", "ab23cd45"}, event_id : {Missing}]

NextCodes ==
    \/ \E u \in UserIds, e \in EventIds, code \in Codes :
          CreateReservationCode(u, e, code)
    \/ \E u \in UserIds, e \in EventIds, draws \in DrawSequences :
          LegacyCreateReservationCode(u, e, draws)
    \/ \E u \in UserIds, rid \in ReservationIds : CancelReservation(u, rid)
    \/ \E a \in UserIds, req \in CheckInRequests \cup CodeRequests :
          CheckInUser(a, req)

SpecCodes == Init /\ [][NextCodes]_vars

\* ---------------------------------------------------- api/events.py, centers
\* dict.get(field, default) on a stored document
Field(d, f, default) == IF f \in DOMAIN d THEN d[f] ELSE default

Centers == {"santo-domingo", "santiago"}
StaffIds == {"s1", "s2", "s3", "s4"}
CenterEventIds == {"e1", "e2"}

\* s1 was stored before the multi-center migration: no role, no center
StaffUsers ==
    << [id |-> "s1", email |-> "s1@ccb.do", name |-> "sol", is_admin |-> TRUE,
        deleted |-> "False"],
       [id |-> "s2", email |-> "s2@ccb.do", name |-> "saul", is_admin |-> FALSE,
        deleted |-> "False", role |-> "editor_local", center |-> "santiago"],
       [id |-> "s3", email |-> "s3@ccb.do", name |-> "sara", is_admin |-> TRUE,
        deleted |-> "False", role |-> "super_admin", center |-> "santo-domingo"],
       [id |-> "s4", email |-> "s4@ccb.do", name |-> "simon", is_admin |-> FALSE,
        deleted |-> "False", role |-> "viewer", center |-> "santiago"] >>

\* core/security.py get_current_user: the user with center and role filled in
CurrentUser(uid) ==
    LET d == users[First(UserById(uid))]
    IN [id |-> d.id, is_admin |-> d.is_admin,
        center |-> Field(d, "center", "santo-domingo"),
        role |-> Field(d, "role", IF d.is_admin THEN "admin_local" ELSE "viewer")]

\* event.get('center', 'santo-domingo')
EventCenter(e) == Field(events[e], "center", "santo-domingo")

\* core/security.py get_admin_user, get_editor_user
AdminAllowed(cu) == cu.is_admin \/ cu.role \in {"super_admin", "admin_local"}
EditorAllowed(cu) == cu.role \in {"super_admin", "admin_local", "editor_local"}

\* api/events.py get_event
GetEventOutcome(uid, e) ==
    IF e \notin DOMAIN events THEN "Event not found"
    ELSE IF CurrentUser(uid).role # "super_admin"
            /\ EventCenter(e) # CurrentUser(uid).center
        THEN "Access denied to this center's events"
    ELSE "Event retrieved successfully"

GetEvent(uid, e) ==
    /\ response' = GetEventOutcome(uid, e)
    /\ call' = [fn |-> "get_event", done |-> TRUE, user |-> uid, event |-> e,
                data |-> IF GetEventOutcome(uid, e) = "Event retrieved successfully"
                         THEN {events[e]} ELSE {}]
    /\ UNCHANGED <<dbVars, workers>>

\* the bodies of PUT /events/{id}: fields that are not set are Missing
EventUpdates == [title : {Missing, "retitled"}, center : {Missing} \cup Centers]

\* api/events.py update_event, then EventService.update_event
UpdateEventOutcome(uid, e, upd) ==
    IF ~EditorAllowed(CurrentUser(uid)) THEN "Editor privileges required"
    ELSE IF e \notin DOMAIN events THEN "Event not found"
    ELSE IF CurrentUser(uid).role # "super_admin"
            /\ EventCenter(e) # CurrentUser(uid).center
        THEN "Cannot modify events from other centers"
    ELSE IF CurrentUser(uid).role # "super_admin" /\ upd.center # Missing
            /\ upd.center # CurrentUser(uid).center
        THEN "Cannot change event center"
    ELSE "Event updated successfully"

UpdatedEvent(e, upd) ==
    [events[e] EXCEPT
        !.title = IF upd.title = Missing THEN @ ELSE upd.title,
        !.center = IF upd.center = Missing THEN @ ELSE upd.center]

ApiUpdateEvent(uid, e, upd) ==
    /\ response' = UpdateEventOutcome(uid, e, upd)
    /\ events' = IF UpdateEventOutcome(uid, e, upd) = "Event updated successfully"
                 THEN [events EXCEPT ![e] = UpdatedEvent(e, upd)]
                 ELSE events
    /\ UNCHANGED <<users, reservations, checkins, indexes, workers, call>>

\* a delete that does not count the reservations
DeleteEventOutcomeUnchecked(uid, e) ==
    IF ~AdminAllowed(CurrentUser(uid)) THEN "Admin privileges required"
    ELSE IF e \notin DOMAIN events THEN "Event not found"
    ELSE "Event deleted successfully"

\* api/events.py delete_event, then EventService.delete_event
DeleteEventOutcome(uid, e) ==
    IF ~AdminAllowed(CurrentUser(uid)) THEN "Admin privileges required"
    ELSE IF ActiveCount(e) > 0 THEN "Cannot delete event with active reservations"
    ELSE IF e \notin DOMAIN events THEN "Event not found"
    ELSE "Event deleted successfully"

\* delete_one({"id": e})
WithoutEvent(e) == [x \in DOMAIN events \ {e} |-> events[x]]

ApiDeleteEvent(uid, e) ==
    /\ response' = DeleteEventOutcome(uid, e)
    /\ events' = IF DeleteEventOutcome(uid, e) = "Event deleted successfully"
                 THEN WithoutEvent(e) ELSE events
    /\ UNCHANGED <<users, reservations, checkins, indexes, workers, call>>

InitCenters ==
    /\ users = StaffUsers
    /\ events \in [CenterEventIds ->
                     [center : Centers, title : {"concierto"}, capacity : {1},
                      published : {TRUE}, past : {FALSE}]]
    /\ reservations = <<>>
    /\ checkins = <<>>
    /\ indexes = ModularIndexes
    /\ response = "none"
    /\ workers = IdleWorkers
    /\ call = NoCall

NextCenters ==
    \/ \E uid \in StaffIds, e \in CenterEventIds : GetEvent(uid, e)
    \/ \E uid \in StaffIds, e \in CenterEventIds, upd \in EventUpdates :
          ApiUpdateEvent(uid, e, upd)
    \/ \E uid \in StaffIds, e \in CenterEventIds : ApiDeleteEvent(uid, e)

SpecCenters == InitCenters /\ [][NextCenters]_vars

\* ------------------------------------------------- the confirmation email
\* what send_reservation_confirmation_email does when it is awaited
EmailOutcomes == {"sent", "not sent", "raises"}

\* an email step without the try/except around it
CreateResponseEmailFatal(u, e, mail) ==
    IF CreateOutcome(u, e) = "Reservation created successfully" /\ mail = "raises"
    THEN "Failed to create reservation"
    ELSE CreateOutcome(u, e)

\* api/reservations.py lines 91-112: after the insert the email is sent
\* inside try/except: pass, and the stored document is returned
CreateResponse(u, e, mail) ==
    IF CreateOutcome(u, e) # "Reservation created successfully"
    THEN CreateOutcome(u, e)
    ELSE IF mail = "raises"
    THEN "Reservation created successfully"
    ELSE "Reservation created successfully"

\* api/reservations.py create_reservation with its email; call holds what the
\* email did and the document the response carries
CreateReservationMailed(u, e, mail) ==
    /\ Len(reservations) < MaxReservations
       \/ CreateOutcome(u, e) # "Reservation created successfully"
    /\ response' = CreateResponse(u, e, mail)
    /\ reservations' =
         IF CreateOutcome(u, e) = "Reservation created successfully"
         THEN Append(reservations, NewReservation(u, e))
         ELSE reservations
    /\ call' =
         IF CreateOutcome(u, e) = "Reservation created successfully"
         THEN [fn |-> "create_reservation", done |-> TRUE, email |-> mail,
               data |-> IF CreateResponse(u, e, mail) = "Reservation created successfully"
                        THEN {NewReservation(u, e)} ELSE {}]
         ELSE call
    /\ UNCHANGED <<users, events, checkins, indexes, workers>>

NextNotify ==
    \/ \E u \in UserIds, e \in EventIds \cup {NoEvent}, mail \in EmailOutcomes :
          CreateReservationMailed(u, e, mail)
    \/ \E u \in UserIds, rid \in ReservationIds : CancelReservation(u, rid)
    \/ \E e \in EventIds, cap \in 1..MaxCapacity, pub \in BOOLEAN :
          UpdateEvent(e, cap, pub)
    \/ \E e \in EventIds : EventPasses(e)

SpecNotify == Init /\ [][NextNotify]_vars

\* ------------------------------------------------------ deleting an event
\* server.py delete_event (legacy)
LegacyDeleteEventOutcome(u, e) ==
    IF ~IsAdmin(u) THEN "Admin access required"
    ELSE IF e \notin DOMAIN events THEN "Event not found"
    ELSE IF LegacyActiveCount(e) > 0
        THEN "Cannot delete event with active reservations. Cancel reservations first."
    ELSE "Event deleted successfully"

LegacyDeleteEvent(u, e) ==
    /\ response' = LegacyDeleteEventOutcome(u, e)
    /\ events' = IF LegacyDeleteEventOutcome(u, e) = "Event deleted successfully"
                 THEN WithoutEvent(e) ELSE events
    /\ UNCHANGED <<users, reservations, checkins, indexes, workers, call>>

\* the reservation requests of both implementations, and the two deletes
NextEvents ==
    \/ \E u \in UserIds, e \in EventIds \cup {NoEvent} : CreateReservation(u, e)
    \/ \E u \in UserIds, e \in EventIds \cup {NoEvent} : LegacyCreateReservation(u, e)
    \/ \E u \in UserIds, rid \in ReservationIds : CancelReservation(u, rid)
    \/ \E u \in UserIds, rid \in ReservationIds : LegacyCancelReservation(u, rid)
    \/ \E u \in UserIds, rid \in ReservationIds : AdminCancelReservation(u, rid)
    \/ \E u \in UserIds, rid \in ReservationIds : AdminCheckinReservation(u, rid)
    \/ \E u \in UserIds, a \in {"cancel", "checkin"}, ids \in SUBSET ReservationIds :
          BulkReservationsAction(u, a, ids)
    \/ \E a \in UserIds, req \in CheckInRequests : CheckInUser(a, req)
    \/ \E ident \in LegacyIdentifiers : LegacyCheckinUser(ident)
    \/ \E rid \in ReservationIds, em \in {"u1@ccb.do", "u2@ccb.do"} :
          DeclineInvitation(rid, em)
    \/ \E e \in EventIds, cap \in 1..MaxCapacity, pub \in BOOLEAN :
          UpdateEvent(e, cap, pub)
    \/ \E e \in EventIds : EventPasses(e)
    \/ \E u \in UserIds, e \in EventIds \cup {NoEvent} : ApiDeleteEvent(u, e)
    \/ \E u \in UserIds, e \in EventIds \cup {NoEvent} : LegacyDeleteEvent(u, e)

SpecEvents == Init /\ [][NextEvents]_vars

\* ------------------------------------------------------- one email, one user
MaxRows == 2

\* UserService.update_user behind PUT /users/{user_id}, for a request that
\* sets the email: the look-up for a taken email sees active documents
\* only; update_one then runs under the unique index on users.email, and a
\* DuplicateKeyError leaves through "except Exception" as a 500
UpdateUserOutcomeUnindexed(caller, uid, email) ==
    IF caller # uid /\ ~IsAdmin(caller) THEN "Not authorized to update this user"
    ELSE IF ActiveUserById(uid) = {} THEN "User not found"
    ELSE IF /\ email # users[First(ActiveUserById(uid))].email
            /\ ActiveUserByEmail(email) # {}
            /\ users[First(ActiveUserByEmail(email))].id # uid
        THEN "Email already in use"
    ELSE "User updated successfully"

UpdateUserOutcome(caller, uid, email) ==
    IF caller # uid /\ ~IsAdmin(caller) THEN "Not authorized to update this user"
    ELSE IF ActiveUserById(uid) = {} THEN "User not found"
    ELSE IF /\ email # users[First(ActiveUserById(uid))].email
            /\ ActiveUserByEmail(email) # {}
            /\ users[First(ActiveUserByEmail(email))].id # uid
        THEN "Email already in use"
    ELSE IF /\ "users.email" \in indexes
            /\ \E i \in DOMAIN users : users[i].id # uid /\ users[i].email = email
        THEN "Internal server error"
    ELSE "User updated successfully"

UpdateUser(caller, uid, email) ==
    /\ response' = UpdateUserOutcome(caller, uid, email)
    /\ users' = IF UpdateUserOutcome(caller, uid, email) = "User updated successfully"
                THEN [i \in DOMAIN users |->
                        IF users[i].id = uid
                        THEN [users[i] EXCEPT !.email = email] ELSE users[i]]
                ELSE users
    /\ call' = [fn |-> "update_user", done |-> TRUE, user_id |-> uid, email |-> email]
    /\ UNCHANGED <<events, reservations, checkins, indexes, workers>>

\* api/users.py import_users, row by row: a row without its email fails, a
\* row whose email is stored is counted as a duplicate, any other row goes
\* to create_user with the password TempPass123!
RECURSIVE ImportRows(_, _)
ImportRows(coll, rows) ==
    IF rows = <<>> THEN coll
    ELSE IF Head(rows) = "" \/ \E i \in DOMAIN coll : coll[i].email = Head(rows)
    THEN ImportRows(coll, Tail(rows))
    ELSE ImportRows(
           Append(coll,
             [id |-> NewUserIds[Len(coll) + 1], email |-> Head(rows),
              name |-> "luis", password |-> HashPassword("TempPass123!"),
              is_admin |-> FALSE, deleted |-> "False", last_login |-> "None"]),
           Tail(rows))

ImportUsers(admin, rows) ==
    /\ Len(ImportRows(users, rows)) <= MaxAccounts
    /\ response' = IF IsAdmin(admin) THEN "import finished"
                   ELSE "Admin privileges required"
    /\ users' = IF IsAdmin(admin) THEN ImportRows(users, rows) ELSE users
    /\ call' = IF IsAdmin(admin)
               THEN [fn |-> "import_users", done |-> TRUE,
                     total_processed |-> Len(rows),
                     successful_imports |-> Len(ImportRows(users, rows)) - Len(users)]
               ELSE [fn |-> "import_users", done |-> TRUE]
    /\ UNCHANGED <<events, reservations, checkins, indexes, workers>>

CsvFiles ==
    UNION {[1..n -> Emails \cup {""}] : n \in 1..MaxRows}

NextUsers ==
    \/ \E em \in Emails, pw \in Passwords : Register(em, pw)
    \/ \E em \in Emails, pw \in Passwords : LegacyRegister(em, pw)
    \/ \E a \in {"u1", "u2"}, rows \in CsvFiles : ImportUsers(a, rows)
    \/ \E c \in {"u1", "u2"}, uid \in AccountIds, em \in Emails : UpdateUser(c, uid, em)
    \/ \E a \in {"u1", "u2"}, uid \in AccountIds : DeleteUser(a, uid)

SpecUsers == InitAuth /\ [][NextUsers]_vars

\* ------------------------------------------------------------ properties
Statuses == {"confirmed", "checked_in", "cancelled"}
StatusOf(i) == reservations[i].status
NonCancelledOf(u, e) ==
    {i \in DOMAIN reservations :
        /\ reservations[i].user_id = u
        /\ reservations[i].event_id = e
        /\ reservations[i].status # "cancelled"}
NonCancelledIn(e) ==
    {i \in DOMAIN reservations :
        reservations[i].event_id = e /\ reservations[i].status # "cancelled"}
EventOpen(e) == events[e].published /\ ~events[e].past

\* C1: checked_in and cancelled are terminal: no operation changes the
\* status of a reservation that is checked_in or cancelled.
C1_TerminalStatuses ==
    [][\A i \in DOMAIN reservations :
          StatusOf(i) \in {"checked_in", "cancelled"}
              => reservations'[i].status = StatusOf(i)]_vars

\* the part of C1 the code keeps: a cancelled reservation stays cancelled
C1_CancelledTerminal ==
    [][\A i \in DOMAIN reservations :
          StatusOf(i) = "cancelled" => reservations'[i].status = "cancelled"]_vars

\* C2: every stored reservation has a status among confirmed, checked_in
\* and cancelled, whatever operations have run (the decline link included).
C2_StatusDomain == \A i \in DOMAIN reservations : StatusOf(i) \in Statuses

C2_Witness ==
    /\ response = "Invitation not found or already processed"
    /\ \E i \in DOMAIN reservations : StatusOf(i) = "confirmed"
    /\ \E i \in DOMAIN reservations : StatusOf(i) = "checked_in"

C4_InsertAfterStaleCheck ==
    [][\A w \in WorkerIds :
          (workers[w].pc = "insert" /\ workers'[w].pc = "idle"
             /\ ~DuplicateKeyError) =>
              /\ Len(reservations') = Len(reservations) + 1
              /\ reservations'[Len(reservations')].status = "confirmed"
              /\ reservations'[Len(reservations')].user_id = workers[w].user
              /\ response' = "Reservation created successfully"]_vars

C4_Witness ==
    \E e \in EventIds :
        /\ Cardinality(NonCancelledIn(e)) > events[e].capacity
        /\ Cardinality({reservations[i].user_id : i \in NonCancelledIn(e)}) = 2
        /\ \A w \in WorkerIds : workers[w].pc = "idle"
        /\ response = "Reservation created successfully"

TrainingDone == call.fn = "train_segmentation_model" /\ call.done

\* C6: train_segmentation_model chooses its method by the number of users
\* alone: five or more give model_type 'ml_clustering' (PCA and KMeans, the
\* model marked trained), one to four give the statistical fallback with
\* model_type 'statistical_segmentation', and no user data raises an error
\* and reports no segmentation.
C6_MethodByPopulation ==
    TrainingDone =>
        LET n == Len(call.args)
            r == call.ret
        IN /\ n >= 5 => /\ ~r.raised
                        /\ r.model_type = "ml_clustering"
                        /\ r.is_trained
                        /\ r.pca_components \in 1..3
                        /\ r.optimal_clusters \in 2..5
           /\ n \in 1..4 => /\ ~r.raised
                            /\ r.model_type = "statistical_segmentation"
                            /\ ~r.is_trained
                            /\ r.num_clusters \in 1..3
           /\ n = 0 => /\ r.raised
                       /\ r.model_type = "none"

C6_Witness ==
    /\ TrainingDone
    /\ Len(call.args) = 5
    /\ call.ret.model_type = "ml_clustering"

NamingDone == call.fn = "_determine_cluster_name" /\ call.done
RuleVIP(c) == c.avg_reservations > 30 /\ c.avg_checkin_rate > 8
RuleRegular(c) == c.avg_reservations > 10 /\ c.avg_checkin_rate > 6
RuleNew(c) == c.avg_days_since_registration < 7
RuleBrowsers(d) == d.page_views > 3 * d.total_reservations
RuleAtRisk(c) == c.avg_days_since_registration > 30 /\ c.avg_events_per_day < 10

\* C7: _determine_cluster_name is a first-match cascade: the name is that of
\* the first rule that holds in the order VIP Members, Regular Attendees,
\* New Users, Browsers, At Risk, and 'Segment <id>' when none holds; a later
\* rule never overrides an earlier one that holds.
C7_FirstMatchCascade ==
    NamingDone =>
        LET c == call.characteristics
            d == call.cluster_data
            name == call.ret
        IN /\ RuleVIP(c) => name = "VIP Members"
           /\ (~RuleVIP(c) /\ RuleRegular(c)) => name = "Regular Attendees"
           /\ (~RuleVIP(c) /\ ~RuleRegular(c) /\ RuleNew(c)) => name = "New Users"
           /\ (~RuleVIP(c) /\ ~RuleRegular(c) /\ ~RuleNew(c)
                 /\ "page_views" \in DOMAIN d) =>
                 /\ RuleBrowsers(d) => name = "Browsers"
                 /\ (~RuleBrowsers(d) /\ RuleAtRisk(c)) => name = "At Risk"
                 /\ (~RuleBrowsers(d) /\ ~RuleAtRisk(c)) =>
                       name = "Segment " \o ToString(IF "cluster_id" \in DOMAIN c
                                                      THEN c.cluster_id ELSE 0)

C7_Witness ==
    /\ NamingDone
    /\ RuleVIP(call.characteristics)
    /\ "page_views" \in DOMAIN call.cluster_data
    /\ RuleBrowsers(call.cluster_data)
    /\ call.ret = "VIP Members"

WeighingDone == call.fn = "calculate_time_weight" /\ call.done
ValidDate(d) == d.form \in {"naive", "utc_z", "offset"}
ExpectedWeight(d) ==
    IF ~ValidDate(d) THEN 1
    ELSE IF d.days_ago <= 30 THEN 10
    ELSE IF d.days_ago <= 90 THEN 7
    ELSE 4

\* C8: calculate_time_weight returns 1.0 for an activity at most 30 days
\* old, 0.7 for one 31 to 90 days old, 0.4 for an older one and 0.1 for an
\* unparseable date, so of two valid activity dates the older never gets
\* the larger weight (weights in tenths).
C8_TimeDecay ==
    WeighingDone =>
        /\ \A i \in 1..2 : call.ret[i] = ExpectedWeight(call.args[i])
        /\ (ValidDate(call.args[1]) /\ ValidDate(call.args[2])
              /\ call.args[1].days_ago >= call.args[2].days_ago)
             => call.ret[1] <= call.ret[2]

\* what the code keeps of C8: the weights of dates without a timezone
C8_NaiveDates ==
    WeighingDone =>
        \A i \in 1..2 :
            call.args[i].form = "naive" => call.ret[i] = ExpectedWeight(call.args[i])

RecommendingDone == call.fn = "generate_recommendations" /\ call.done
\* the upcoming, published events of the user's center in one of the user's
\* top three categories
Eligible ==
    {i \in DOMAIN call.catalogue :
        /\ call.catalogue[i].category \in TopCategories(call.interest_scores)
        /\ call.catalogue[i].center = UserCenter
        /\ call.catalogue[i].published
        /\ call.catalogue[i].date >= call.today}
\* the five of them with the earliest dates
EarliestFive ==
    {i \in Eligible :
        Cardinality({j \in Eligible :
            call.catalogue[j].date < call.catalogue[i].date}) < 5}
ScoreOf(i) ==
    CategoryScore(call.interest_scores, call.catalogue[i].category)
        * (IF call.catalogue[i].time = "" THEN 10 ELSE 12)
Returned == {call.ret[r].event_id : r \in DOMAIN call.ret}
\* the answer is the best (at most three) of the pool, best first
BestThreeOf(pool) ==
    /\ Len(call.ret) = Min(3, Cardinality(pool))
    /\ Cardinality(Returned) = Len(call.ret)
    /\ Returned \subseteq pool
    /\ \A r \in DOMAIN call.ret :
          call.ret[r].recommendation_score = ScoreOf(call.ret[r].event_id)
    /\ \A r, q \in DOMAIN call.ret :
          r < q => call.ret[r].recommendation_score >= call.ret[q].recommendation_score
    /\ \A i \in pool \ Returned, j \in Returned : ScoreOf(i) <= ScoreOf(j)

\* C9 as stated: among all eligible events generate_recommendations returns
\* the (at most three) with the highest recommendation_score, in
\* non-increasing order, leaving out no eligible event that scores higher
\* than one it returns.
C9_BestOfAllEligible == RecommendingDone => BestThreeOf(Eligible)

\* C9 as the code has it: the events ranked are the five eligible events
\* with the earliest dates; of those five it returns the (at most three)
\* with the highest recommendation_score, in non-increasing order, and
\* leaves out none of the five that scores higher than one it returns.
C9_BestOfEarliestFive == RecommendingDone => BestThreeOf(EarliestFive)

C9_Witness ==
    /\ RecommendingDone
    /\ Cardinality(Eligible) > 5
    /\ Len(call.ret) = 3
    /\ \E i \in Eligible \ EarliestFive, j \in Returned : ScoreOf(i) > ScoreOf(j)

\* the credentials of a registration that succeeded, the user not deleted
RegisteredNotDeleted(email, password) ==
    \E i \in DOMAIN users :
        /\ users[i].email = email
        /\ users[i].password = <<"bcrypt", password>>
        /\ users[i].deleted # "True"

\* C10: after a registration has succeeded for an email and password, and
\* while that user has not been deleted, a login with the same email and
\* password succeeds and returns an access token together with the user.
C10_LoginAfterRegistration ==
    [][\A em \in Emails, pw \in Passwords :
          RegisteredNotDeleted(em, pw) =>
             /\ Login(em, pw) =>
                  /\ call'.ret.status = 200
                  /\ \E i \in DOMAIN users :
                        users[i].email = em /\ call'.ret.user = users[i].id
             /\ LegacyLogin(em, pw) =>
                  /\ call'.ret.status = 200
                  /\ \E i \in DOMAIN users :
                        users[i].email = em /\ call'.ret.user = users[i].id]_vars

\* C11: the modular API is behaviourally compatible with server.py for the
\* reservation workflow: on the same data both accept and reject the same
\* create, cancel and check-in requests and end with the same status for
\* every reservation.
C11_SameBehaviour ==
    call.fn = "both" =>
        /\ call.modular = call.legacy
        /\ StatusesOf(reservations) = call.legacy_statuses

\* C12: check-in codes are unique: no two stored reservations have the same
\* checkin_code, whatever the generator draws for successive creates.
C12_UniqueCheckinCodes ==
    \A i, j \in DOMAIN reservations :
        i # j => reservations[i].checkin_code # reservations[j].checkin_code

\* the events of the centers that are not the user's own
ForeignEvents(uid) ==
    {e \in DOMAIN events : EventCenter(e) # CurrentUser(uid).center}

\* C13: events are partitioned by center: a request by a user who is not a
\* super_admin returns no event of another center and leaves every event of
\* another center stored as it was.
C13_CenterPartition ==
    [][\A uid \in StaffIds, e \in CenterEventIds :
          CurrentUser(uid).role # "super_admin" =>
             /\ GetEvent(uid, e) =>
                  \A d \in call'.data :
                     Field(d, "center", "santo-domingo") = CurrentUser(uid).center
             /\ ( \/ \E upd \in EventUpdates : ApiUpdateEvent(uid, e, upd)
                  \/ ApiDeleteEvent(uid, e) ) =>
                  \A f \in ForeignEvents(uid) :
                     f \in DOMAIN events' /\ events'[f] = events[f]]_vars

\* the users collection with no user of that email
WithoutEmail(coll, email) == SelectSeq(coll, LAMBDA d : d.email # email)

\* C14: forgot_password does not reveal whether an email is registered: the
\* response is the one the same request gets from the database that differs
\* only in holding no user with that email.
C14_NoDisclosure ==
    call.fn = "forgot_password" =>
        call.ret.detail =
            ForgotPasswordOutcomeIn(WithoutEmail(users, call.email),
                                    call.email, call.email_sent)

\* the decline link of a live reservation: the reservation is confirmed, the
\* email is its user's, and the event's count is within its capacity
DeclineLinkFor(rid, email) ==
    \E i \in DOMAIN reservations :
        /\ reservations[i].id = rid
        /\ StatusOf(i) = "confirmed"
        /\ \E j \in DOMAIN users :
              users[j].id = reservations[i].user_id /\ users[j].email = email
        /\ reservations[i].event_id \in DOMAIN events
        /\ ActiveCount(reservations[i].event_id)
             <= events[reservations[i].event_id].capacity

C16_EmailFailureIgnored ==
    [][\A u \in UserIds, e \in EventIds, mail \in EmailOutcomes :
          (CreateReservationMailed(u, e, mail)
             /\ Len(reservations') = Len(reservations) + 1) =>
                /\ response' = "Reservation created successfully"
                /\ call'.data = {reservations'[Len(reservations')]}]_vars

C16_Witness ==
    /\ call.fn = "create_reservation"
    /\ call.email = "raises"
    /\ response = "Reservation created successfully"
    /\ reservations # <<>>
    /\ call.data = {reservations[Len(reservations)]}

\* a login with an unknown email or with a wrong password
BadCredentials(email, password) ==
    \A i \in DOMAIN users :
        users[i].email = email => users[i].password # <<"bcrypt", password>>

\* C17: a login with an unknown email or a wrong password is answered with
\* status 401 and no token, by the modular API and by server.py alike.
C17_BadLoginIs401 ==
    [][\A em \in Emails, pw \in Passwords :
          BadCredentials(em, pw) =>
             /\ Login(em, pw) =>
                  call'.ret.status = 401 /\ "access_token" \notin DOMAIN call'.ret
             /\ LegacyLogin(em, pw) =>
                  call'.ret.status = 401 /\ "access_token" \notin DOMAIN call'.ret]_vars

\* C18: uniqueness per (user, event) rests on find-then-insert only: a
\* request that has passed the existence check stores its reservation even
\* when another request of the same user for the same event has stored one
\* in between (nothing in the database refers to the pair), so the pair ends
\* with two non-cancelled reservations.
C18_SecondInsertForSamePair ==
    [][\A w \in WorkerIds, u \in UserIds, e \in EventIds :
          ( /\ InsertReservation(w)
            /\ workers[w].user = u /\ workers[w].event = e
            /\ NonCancelledOf(u, e) # {}
            /\ ~DuplicateKeyError ) =>
               /\ response' = "Reservation created successfully"
               /\ Cardinality(NonCancelledOf(u, e))'
                    = Cardinality(NonCancelledOf(u, e)) + 1]_vars

C18_Witness ==
    /\ \E u \in UserIds, e \in EventIds : Cardinality(NonCancelledOf(u, e)) = 2
    /\ \A w \in WorkerIds : workers[w].pc = "idle"
    /\ response = "Reservation created successfully"
    /\ \A i \in DOMAIN reservations : StatusOf(i) = "confirmed"

\* the answers with which check_in_user refuses a request
CheckInRefusals ==
    {"Admin privileges required", "Invalid QR code format",
     "Invalid reservation code format", "Reservation not found",
     "User not found with this email", "User not found with this name",
     "Multiple users found with name",
     "No active reservations found for this email",
     "No active reservations found for this user",
     "Multiple reservations found. Please specify event.",
     "Invalid check-in method", "User already checked in",
     "Reservation has been cancelled", "Reservation details not found"}

C20_NoDeleteWithActiveReservations ==
    /\ [](\A i \in DOMAIN reservations :
            StatusOf(i) # "cancelled" => reservations[i].event_id \in DOMAIN events)
    /\ [][\A u \in UserIds, e \in EventIds :
            (NonCancelledIn(e) # {}
               /\ (ApiDeleteEvent(u, e) \/ LegacyDeleteEvent(u, e))) =>
                  /\ events' = events
                  /\ response' # "Event deleted successfully"]_vars

C20_Witness ==
    /\ response = "Cannot delete event with active reservations"
    /\ \E i, j \in DOMAIN reservations :
          /\ StatusOf(i) = "cancelled"
          /\ StatusOf(j) # "cancelled" /\ reservations[j].event_id \in DOMAIN events

\* the reservations of a user for an event that are cancelled
CancelledOf(u, e) ==
    {i \in DOMAIN reservations :
        /\ reservations[i].user_id = u /\ reservations[i].event_id = e
        /\ StatusOf(i) = "cancelled"}

\* a cancel_reservation request that succeeds leaves the event of the
\* reservation with one more available place than before
C21_PlaceReleased ==
    [][\A u \in UserIds, i \in DOMAIN reservations, e \in EventIds :
          (/\ reservations[i].event_id = e
           /\ CancelReservation(u, reservations[i].id)
           /\ response' = "Reservation cancelled successfully") =>
              AvailableSpots(e)' = AvailableSpots(e) + 1]_vars

\* a user whose reservation for an event was cancelled and who holds no
\* other one is accepted again while the event is published, not past and
\* not full
C21_RebookingAccepted ==
    \A u \in UserIds, e \in EventIds :
        (/\ CancelledOf(u, e) # {}
         /\ ExistingReservation(u, e) = {}
         /\ events[e].published /\ ~events[e].past
         /\ AvailableSpots(e) > 0) =>
            CreateOutcome(u, e) = "Reservation created successfully"

\* C21: cancelling releases the place and permits re-booking: after a
\* successful cancel_reservation the event's available_spots is one higher
\* than before, and the same user's next create_reservation for the event
\* succeeds provided the event is published, not past and not full.
C21_CancelReleasesAndPermitsRebooking ==
    /\ C21_PlaceReleased
    /\ []C21_RebookingAccepted

\* the documents other than uid's that hold an email
OtherHolders(uid, email) ==
    {i \in DOMAIN users : users[i].id # uid /\ users[i].email = email}

UpdateRefusals == {"Not authorized to update this user", "User not found",
                   "Email already in use", "Internal server error"}

\* C22: no two user documents share an email: after any sequence of
\* register, bulk import and update_user requests every email belongs to at
\* most one stored user, and a request that would give a second user an
\* existing email is refused (a duplicate row of an import is skipped)
\* without changing the users collection.  Every request records itself in
\* call, so call' names the request a step has handled.
C22_OneUserPerEmail ==
    /\ [](\A i, j \in DOMAIN users : i # j => users[i].email # users[j].email)
    /\ [][/\ (call'.fn \in {"register", "legacy_register"}
               /\ UserByEmail(call'.email) # {}) =>
                 users' = users /\ response' # "User registered successfully"
          /\ (call'.fn = "update_user"
               /\ OtherHolders(call'.user_id, call'.email) # {}) =>
                 users' = users /\ response' \in UpdateRefusals
          /\ call'.fn = "import_users" =>
                 /\ \A i \in DOMAIN users : users'[i] = users[i]
                 /\ \A j \in DOMAIN users' \ DOMAIN users :
                       UserByEmail(users'[j].email) = {}]_vars

\* an update to the email of a soft-deleted user has been refused by the
\* index, and an import has skipped a stored email and stored a new one
C22_Witness ==
    /\ response = "Internal server error"
    /\ \E i, j \in DOMAIN users :
          /\ users[i].deleted = "True" /\ users[j].deleted = "False"
          /\ users[i].email \in Emails
    /\ \E k \in DOMAIN users : users[k].password = HashPassword("TempPass123!")

====
